---- MODULE Spec2Model ----
(***************************************************************************)
(* Model of the single-threaded poll() key-value server of src/test.cpp:   *)
(* the wire codec (read_u32, read_str, parse_req, make_response), the      *)
(* command dispatch on g_data (do_request), the per-connection handlers    *)
(* (handle_one_request, handle_read, handle_write, handle_accept) and the  *)
(* event loop of main().  Buffers are sequences of bytes (0..255) and all  *)
(* length fields are 4-byte host-endian (little-endian) unsigned integers. *)
(***************************************************************************)
EXTENDS Integers, Sequences, FiniteSets, TLC

(***************************************************************************)
(* Program constants.                                                      *)
(***************************************************************************)
k_max_msg == 33554432

(***************************************************************************)
(* Bounds of the model.                                                    *)
(***************************************************************************)
\* descriptor slots available to accepted sockets (fd2conn indices)
MaxFd == 2
\* connection attempts the clients make in total
MaxConnects == 2
\* request frames one client puts on one connection
MaxFrames == 2
\* request frames all clients send together
MaxTotal == 3
\* size of a short read() / write() transfer; any transfer is either short
\* or takes everything that is available
Seg == 6

(***************************************************************************)
(* Bytes and strings.                                                      *)
(***************************************************************************)
S_get == <<103, 101, 116>>
S_set == <<115, 101, 116>>
S_del == <<100, 101, 108>>
S_k == <<107>>
S_a == <<97>>
S_b == <<98>>

\* memcpy of a uint32_t into 4 bytes on a little-endian host
U32(n) ==
    << n % 256, (n \div 256) % 256, (n \div 65536) % 256, (n \div 16777216) % 256 >>

\* memcpy of 4 bytes at 0-based offset off of buf into a uint32_t.  The bytes
\* of the model keep the top byte below 128, so every value is below 2^31;
\* the sums 4 + len and 4 + data.size() of the program are then far from the
\* 32-bit wrap (len is at most MaxFrameLen where 4 + len is computed).
LoadU32(buf, off) ==
    buf[off + 1] + 256 * buf[off + 2] + 65536 * buf[off + 3] + 16777216 * buf[off + 4]

\* buf_append
buf_append(buf, data) == buf \o data

\* buf_consume: erase the first n bytes
buf_consume(buf, n) == SubSeq(buf, n + 1, Len(buf))

Min(a, b) == IF a < b THEN a ELSE b

(***************************************************************************)
(* Codec.  A cursor is a 0-based offset into data; end is Len(data).       *)
(***************************************************************************)
read_u32(data, cur) ==
    IF cur + 4 > Len(data)
    THEN [ok |-> FALSE, cur |-> cur, out |-> 0]
    ELSE [ok |-> TRUE, cur |-> cur + 4, out |-> LoadU32(data, cur)]

read_str(data, cur, n) ==
    IF cur + n > Len(data)
    THEN [ok |-> FALSE, cur |-> cur, out |-> <<>>]
    ELSE [ok |-> TRUE, cur |-> cur + n, out |-> SubSeq(data, cur + 1, cur + n)]

RECURSIVE parse_loop(_, _, _, _)
\* the rest of an iteration once the string s has been read
parse_push(data, nstr, out, s) ==
    IF ~s.ok
    THEN [rc |-> -1, out |-> out]
    ELSE parse_loop(data, s.cur, nstr, Append(out, s.out))

\* the rest of an iteration once the length l has been read
parse_str(data, nstr, out, l) ==
    IF ~l.ok
    THEN [rc |-> -1, out |-> out]
    ELSE parse_push(data, nstr, out, read_str(data, l.cur, l.out))

\* while(out.size() < nstr) of parse_req, with the cursor at cur
parse_loop(data, cur, nstr, out) ==
    IF ~(Len(out) < nstr)
    THEN [rc |-> 0, out |-> out]
    ELSE parse_str(data, nstr, out, read_u32(data, cur))

\* parse_req once nstr has been read as h
parse_args(data, h) ==
    IF ~h.ok
    THEN [rc |-> -1, out |-> <<>>]
    ELSE IF h.out > k_max_msg
         THEN [rc |-> -1, out |-> <<>>]
         ELSE parse_loop(data, h.cur, h.out, <<>>)

parse_req(data) == parse_args(data, read_u32(data, 0))

\* a default-constructed Response
Response == [status |-> 0, data |-> <<>>]

make_response(resp, out) ==
    LET resp_len == 4 + Len(resp.data)
    IN  buf_append(buf_append(buf_append(out, U32(resp_len)), U32(resp.status)),
                   resp.data)

(***************************************************************************)
(* The store g_data is a function from the keys present to their values.   *)
(***************************************************************************)
EmptyStore == [x \in {} |-> <<>>]

\* g_data[cmd[2]] = cmd[1]: the value used as the key
StorePut_swapped(g, k, v) == [x \in (DOMAIN g) \cup {v} |-> IF x = v THEN k ELSE g[x]]

StorePut(g, k, v) == [x \in (DOMAIN g) \cup {k} |-> IF x = k THEN v ELSE g[x]]

StoreErase(g, k) == [x \in (DOMAIN g) \ {k} |-> g[x]]

\* the Response do_request builds for a get
get_response(cmd, g) ==
    IF cmd[2] \notin DOMAIN g
    THEN [Response EXCEPT !.status = 1]
    ELSE [Response EXCEPT !.status = 0, !.data = g[cmd[2]]]

\* do_request without the return after the not-found response: the response
\* is built a second time by the call at the end
do_request_no_return(cmd, g, out) ==
    IF Len(cmd) = 2 /\ cmd[1] = S_get
    THEN IF cmd[2] \notin DOMAIN g
         THEN [g |-> g,
               out |-> make_response(get_response(cmd, g),
                                     make_response(get_response(cmd, g), out))]
         ELSE [g |-> g, out |-> make_response(get_response(cmd, g), out)]
    ELSE IF Len(cmd) = 3 /\ cmd[1] = S_set
    THEN [g |-> StorePut(g, cmd[2], cmd[3]), out |-> make_response(Response, out)]
    ELSE IF Len(cmd) = 2 /\ cmd[1] = S_del
    THEN [g |-> StoreErase(g, cmd[2]), out |-> make_response(Response, out)]
    ELSE [g |-> g, out |-> make_response([Response EXCEPT !.status = 1], out)]

\* do_request whose del answers status 1 when the key is not there
do_request_del_strict(cmd, g, out) ==
    IF Len(cmd) = 2 /\ cmd[1] = S_get
    THEN [g |-> g, out |-> make_response(get_response(cmd, g), out)]
    ELSE IF Len(cmd) = 3 /\ cmd[1] = S_set
    THEN [g |-> StorePut(g, cmd[2], cmd[3]), out |-> make_response(Response, out)]
    ELSE IF Len(cmd) = 2 /\ cmd[1] = S_del
    THEN [g |-> StoreErase(g, cmd[2]),
          out |-> make_response([Response EXCEPT !.status =
                                    IF cmd[2] \in DOMAIN g THEN 0 ELSE 1], out)]
    ELSE [g |-> g, out |-> make_response([Response EXCEPT !.status = 1], out)]

\* do_request(cmd, resp, out) on store g: the store after it and the bytes of
\* out after it
do_request(cmd, g, out) ==
    IF Len(cmd) = 2 /\ cmd[1] = S_get
    THEN [g |-> g, out |-> make_response(get_response(cmd, g), out)]
    ELSE IF Len(cmd) = 3 /\ cmd[1] = S_set
    THEN [g |-> StorePut(g, cmd[2], cmd[3]), out |-> make_response(Response, out)]
    ELSE IF Len(cmd) = 2 /\ cmd[1] = S_del
    THEN [g |-> StoreErase(g, cmd[2]), out |-> make_response(Response, out)]
    ELSE [g |-> g, out |-> make_response([Response EXCEPT !.status = 1], out)]

(***************************************************************************)
(* Connections.                                                            *)
(***************************************************************************)
\* the length ceiling handle_one_request compares against
MaxFrameLen == 33554432

\* the ceiling test with the prefix subtracted on the wrong side
too_long_shifted(len) == len - 4 > MaxFrameLen

\* if(len > (32 << 20))
too_long(len) == len > MaxFrameLen

\* struct conn as handle_accept leaves it
NewConn(newfd) ==
    [fd |-> newfd, want_write |-> FALSE, want_read |-> TRUE, want_close |-> FALSE,
     read_buf |-> <<>>, write_buf |-> <<>>]

\* an empty slot of fd2conn
NULL == [null |-> TRUE]

\* handle_one_request from do_request on: d is what do_request returned
one_request_done(c, len, cmd, d) ==
    [ok |-> TRUE,
     c |-> [c EXCEPT !.write_buf = d.out, !.read_buf = buf_consume(c.read_buf, len)],
     g |-> d.g, why |-> "done", cmd |-> cmd]

\* handle_one_request that dispatches what parse_req collected whether or not
\* it failed
one_request_parsed_lenient(c, g, len, p) ==
    one_request_done(c, len, p.out, do_request(p.out, g, c.write_buf))

\* handle_one_request from the result p of parse_req on; len is the number of
\* bytes of read_buf the frame takes
one_request_parsed(c, g, len, p) ==
    IF p.rc < 0
    THEN [ok |-> FALSE, c |-> [c EXCEPT !.want_close = TRUE], g |-> g,
          why |-> "bad request"]
    ELSE one_request_done(c, len, p.out, do_request(p.out, g, c.write_buf))

\* handle_one_request without the wait for 4 + len bytes: the bytes present
\* are parsed as the frame
one_request_eager(c, g, len) ==
    IF too_long(len)
    THEN [ok |-> FALSE, c |-> [c EXCEPT !.want_close = TRUE], g |-> g,
          why |-> "too long"]
    ELSE one_request_parsed(c, g, Min(4 + len, Len(c.read_buf)),
                            parse_req(SubSeq(c.read_buf, 5,
                                             Min(4 + len, Len(c.read_buf)))))

\* handle_one_request once len has been read from the first 4 bytes
one_request_framed(c, g, len) ==
    IF too_long(len)
    THEN [ok |-> FALSE, c |-> [c EXCEPT !.want_close = TRUE], g |-> g,
          why |-> "too long"]
    ELSE IF Len(c.read_buf) < 4 + len
    THEN [ok |-> FALSE, c |-> c, g |-> g, why |-> "partial"]
    ELSE one_request_parsed(c, g, 4 + len, parse_req(SubSeq(c.read_buf, 5, 4 + len)))

\* handle_one_request(c) on store g.  cmd is the parsed command when one was
\* dispatched (ok = TRUE); why tells which return was taken.
handle_one_request(c, g) ==
    IF Len(c.read_buf) < 4
    THEN [ok |-> FALSE, c |-> c, g |-> g, why |-> "short"]
    ELSE one_request_framed(c, g, LoadU32(c.read_buf, 0))

\* while(handle_one_request(c)){} ; log collects, per dispatched request, the
\* command and the store it was dispatched on
RECURSIVE request_loop(_, _, _)
\* the loop once handle_one_request has returned r
request_next(g, log, r) ==
    IF r.ok
    THEN request_loop(r.c, r.g, Append(log, [cmd |-> r.cmd, g |-> g]))
    ELSE [c |-> r.c, g |-> r.g, log |-> log, why |-> r.why]

request_loop(c, g, log) == request_next(g, log, handle_one_request(c, g))

(***************************************************************************)
(* Results of the system calls, chosen by the environment.  A transfer is  *)
(* refused with EAGAIN ("eagain"), fails with another errno ("error"),     *)
(* moves Seg bytes ("short") or moves everything there is ("full");        *)
(* read() also returns 0 at end of stream ("eof").                         *)
(***************************************************************************)
Moved(kind, avail) == IF kind = "short" THEN Min(Seg, avail) ELSE avail

\* handle_write that drops all of write_buf whatever write() returned
write_done_all(c, rv) ==
    [c |-> [c EXCEPT !.write_buf = <<>>, !.want_write = FALSE],
     nwrite |-> 1, acc |-> SubSeq(c.write_buf, 1, rv)]

\* handle_write after write() returned rv >= 0
write_done(c, rv) ==
    [c |-> [c EXCEPT !.write_buf = buf_consume(c.write_buf, rv),
                     !.want_write = IF Len(c.write_buf) - rv = 0 THEN FALSE ELSE @],
     nwrite |-> 1, acc |-> SubSeq(c.write_buf, 1, rv)]

\* handle_write that gives up its interest in POLLOUT when write() returns
\* EAGAIN
handle_write_forget(c, wk) ==
    IF c.write_buf = <<>>
    THEN [c |-> [c EXCEPT !.want_write = FALSE], nwrite |-> 0, acc |-> <<>>]
    ELSE IF wk = "eagain"
    THEN [c |-> [c EXCEPT !.want_write = FALSE], nwrite |-> 1, acc |-> <<>>]
    ELSE IF wk = "error"
    THEN [c |-> [c EXCEPT !.want_close = TRUE], nwrite |-> 1, acc |-> <<>>]
    ELSE write_done(c, Moved(wk, Len(c.write_buf)))

\* handle_write(c) when the kernel answers write() with wk.  nwrite counts
\* the write() calls issued and acc is the prefix of write_buf the kernel
\* accepted.
handle_write(c, wk) ==
    IF c.write_buf = <<>>
    THEN [c |-> [c EXCEPT !.want_write = FALSE], nwrite |-> 0, acc |-> <<>>]
    ELSE IF wk = "eagain"
    THEN [c |-> c, nwrite |-> 1, acc |-> <<>>]
    ELSE IF wk = "error"
    THEN [c |-> [c EXCEPT !.want_close = TRUE], nwrite |-> 1, acc |-> <<>>]
    ELSE write_done(c, Moved(wk, Len(c.write_buf)))

\* the result of handle_read when it calls handle_write without setting
\* want_write first
read_result_no_interest(l, w) ==
    [c |-> [w.c EXCEPT !.want_write = FALSE], g |-> l.g, log |-> l.log, why |-> l.why,
     queued |-> l.c.write_buf, nwrite |-> w.nwrite, acc |-> w.acc]

\* the result of handle_read: l is what the request loop returned and w what
\* the handle_write after it returned
read_result(l, w) ==
    [c |-> w.c, g |-> l.g, log |-> l.log, why |-> l.why, queued |-> l.c.write_buf,
     nwrite |-> w.nwrite, acc |-> w.acc]

NoWrite(c) == [c |-> c, nwrite |-> 0, acc |-> <<>>]

\* handle_read that leaves write_buf alone once want_close is set
read_flush_quiet(l, wk) ==
    IF Len(l.c.write_buf) > 0 /\ ~l.c.want_close
    THEN read_result(l, handle_write([l.c EXCEPT !.want_write = TRUE], wk))
    ELSE read_result(l, NoWrite(l.c))

\* handle_read after the request loop returned l: queued is write_buf as the
\* loop leaves it
read_flush(l, wk) ==
    IF Len(l.c.write_buf) > 0
    THEN read_result(l, handle_write([l.c EXCEPT !.want_write = TRUE], wk))
    ELSE read_result(l, NoWrite(l.c))

\* handle_read when read() did not return bytes
read_nothing(c, g, why) ==
    [c |-> c, g |-> g, log |-> <<>>, why |-> why, queued |-> c.write_buf,
     nwrite |-> 0, acc |-> <<>>]

\* handle_read that stores the bytes just read in place of read_buf instead
\* of appending them
handle_read_overwrite(c, g, rk, data, wk) ==
    IF rk = "eagain"
    THEN read_nothing(c, g, "eagain")
    ELSE IF rk = "error"
    THEN read_nothing([c EXCEPT !.want_close = TRUE], g, "read error")
    ELSE IF rk = "eof"
    THEN read_nothing([c EXCEPT !.want_close = TRUE], g, "eof")
    ELSE read_flush(request_loop([c EXCEPT !.read_buf = data], g, <<>>), wk)

\* handle_read(c) on store g when the kernel answers read() with rk and the
\* bytes data, and answers the write() of the nested handle_write with wk
handle_read(c, g, rk, data, wk) ==
    IF rk = "eagain"
    THEN read_nothing(c, g, "eagain")
    ELSE IF rk = "error"
    THEN read_nothing([c EXCEPT !.want_close = TRUE], g, "read error")
    ELSE IF rk = "eof"
    THEN read_nothing([c EXCEPT !.want_close = TRUE], g, "eof")
    ELSE read_flush(request_loop([c EXCEPT !.read_buf = @ \o data], g, <<>>), wk)

(***************************************************************************)
(* Request frames the clients send.  Encode lays a command out the way     *)
(* fill_request does: total length, argument count, then each argument as  *)
(* length and bytes.                                                       *)
(***************************************************************************)
RECURSIVE EncodeArgs(_)
EncodeArgs(args) ==
    IF args = <<>> THEN <<>>
    ELSE U32(Len(Head(args))) \o Head(args) \o EncodeArgs(Tail(args))

Encode(args) ==
    LET body == U32(Len(args)) \o EncodeArgs(args)
    IN  U32(Len(body)) \o body

Well(args) == [bytes |-> Encode(args), kind |-> "ok", cmd |-> args]

\* the frames a client may send: well-formed commands, a frame whose argument
\* length runs past its end (5), a length prefix above the ceiling (6), a
\* frame too short to hold its argument count (8) and a frame that ends
\* before the arguments it counts (9)
FrameTable ==
    << Well(<<S_set, S_k, S_a>>),
       Well(<<S_get, S_k>>),
       Well(<<S_del, S_k>>),
       Well(<<>>),
       [bytes |-> U32(8) \o U32(1) \o U32(9), kind |-> "malformed", cmd |-> <<>>],
       [bytes |-> U32(MaxFrameLen + 1), kind |-> "oversize", cmd |-> <<>>],
       Well(<<S_set, S_k, S_b>>),
       [bytes |-> U32(2) \o <<1, 0>>, kind |-> "malformed", cmd |-> <<>>],
       [bytes |-> U32(4) \o U32(1), kind |-> "malformed", cmd |-> <<>>] >>

\* the frames the clients of the event-loop model send
Frames == {1, 2, 3, 6}


(***************************************************************************)
(* State of the server process and of its environment.                     *)
(***************************************************************************)
VARIABLES
    pc,         \* where main() is: "poll", "accept", "dispatch" or "aborted"
    fd2conn,    \* vector<conn*>: slot fd holds the conn of descriptor fd or NULL
    poll_args,  \* the entries of poll_args with revents set that the loop over
                \* poll_args has still to visit, in order
    g_data,     \* the store
    wire,       \* per descriptor: bytes the peer sent that read() has not returned
    peer,       \* per descriptor: "none" (no socket), "open", "closed", "reset"
    backlog,    \* connections waiting in the listen queue
    nconnects,  \* connection attempts made so far
    naccepted,  \* connections accepted so far
    cid,        \* per descriptor: number of the connection it carries
    issued,     \* per connection: the frames its client sent, in order
    glog,       \* every dispatched request in dispatch order: connection,
                \* command, store it ran on
    appended,   \* per connection: all bytes ever appended to write_buf
    accepted,   \* per connection: all bytes write() ever accepted
    ev,         \* what the last step did, when it was a step of the server
                \* that a property speaks of: for a dispatch, err is the first
                \* cause that set want_close, wrote the write() calls issued
                \* after handle_read set want_close, ndisp the requests it
                \* dispatched, failed whether an assert failed and closed
                \* whether the connection was closed
    swarm       \* the benchmark client of src/swarm.cpp: where its main() is
                \* ("off", "run", "done"), reqs_per_client, completed and the
                \* vector clients, each Client with the state of its socket

server_vars == << pc, fd2conn, poll_args, g_data, wire, peer, backlog, nconnects,
                  naccepted, cid, issued, glog, appended, accepted, ev >>

vars == << pc, fd2conn, poll_args, g_data, wire, peer, backlog, nconnects,
           naccepted, cid, issued, glog, appended, accepted, ev, swarm >>

\* the benchmark client is not running
NoSwarm == [pc |-> "off", reqs_per_client |-> 0, completed |-> 0, clients |-> <<>>]

Fds == 1..MaxFd
Cids == 1..MaxConnects

Idle == [op |-> "none"]

Slot(tab, fd) == IF fd <= Len(tab) THEN tab[fd] ELSE NULL

Live(fd) == Slot(fd2conn, fd) # NULL

LiveFds == {fd \in Fds : Live(fd)}

Init ==
    /\ pc = "poll"
    /\ fd2conn = <<>>
    /\ poll_args = <<>>
    /\ g_data = EmptyStore
    /\ wire = [fd \in Fds |-> <<>>]
    /\ peer = [fd \in Fds |-> "none"]
    /\ backlog = 0
    /\ nconnects = 0
    /\ naccepted = 0
    /\ cid = [fd \in Fds |-> 0]
    /\ issued = [c \in Cids |-> <<>>]
    /\ glog = <<>>
    /\ appended = [c \in Cids |-> <<>>]
    /\ accepted = [c \in Cids |-> <<>>]
    /\ ev = Idle
    /\ swarm = NoSwarm

(***************************************************************************)
(* The clients.  Their steps are taken while the server is blocked in      *)
(* poll(): a client step during an iteration has the effect of the same    *)
(* step before poll() returned (poll() may report any part of what is      *)
(* ready) or after the iteration.  The exception is a pending connection   *)
(* that goes away between poll() and accept().                             *)
(***************************************************************************)
ClientConnect(maxc) ==
    /\ pc = "poll"
    /\ nconnects < maxc
    /\ nconnects' = nconnects + 1
    /\ backlog' = backlog + 1
    /\ ev' = Idle
    /\ UNCHANGED << swarm, pc, fd2conn, poll_args, g_data, wire, peer, naccepted,
                    cid, issued, glog, appended, accepted >>

\* a pending connection goes away before the server accepts it
ClientAbort ==
    /\ pc \in {"poll", "accept"}
    /\ backlog > 0
    /\ backlog' = backlog - 1
    /\ ev' = Idle
    /\ UNCHANGED << swarm, pc, fd2conn, poll_args, g_data, wire, peer, nconnects,
                    naccepted, cid, issued, glog, appended, accepted >>

RECURSIVE SumLen(_, _)
SumLen(fn, n) == IF n = 0 THEN 0 ELSE Len(fn[n]) + SumLen(fn, n - 1)

\* the client on fd sends frame f; one connection carries at most maxf frames
\* and all connections together at most maxtotal
ClientSend(fd, f, maxf, maxtotal) ==
    /\ pc = "poll"
    /\ peer[fd] = "open"
    /\ Len(issued[cid[fd]]) < maxf
    /\ SumLen(issued, MaxConnects) < maxtotal
    /\ wire' = [wire EXCEPT ![fd] = @ \o FrameTable[f].bytes]
    /\ issued' = [issued EXCEPT ![cid[fd]] = Append(@, f)]
    /\ ev' = Idle
    /\ UNCHANGED << swarm, pc, fd2conn, poll_args, g_data, peer, backlog, nconnects,
                    naccepted, cid, glog, appended, accepted >>

\* the client shuts its side down (read() returns 0 once wire is drained)
ClientClose(fd) ==
    /\ pc = "poll"
    /\ peer[fd] = "open"
    /\ peer' = [peer EXCEPT ![fd] = "closed"]
    /\ ev' = Idle
    /\ UNCHANGED << swarm, pc, fd2conn, poll_args, g_data, wire, backlog, nconnects,
                    naccepted, cid, issued, glog, appended, accepted >>

\* the client resets the connection (read() and write() fail, poll() reports
\* POLLERR)
ClientReset(fd) ==
    /\ pc = "poll"
    /\ peer[fd] \in {"open", "closed"}
    /\ peer' = [peer EXCEPT ![fd] = "reset"]
    /\ ev' = Idle
    /\ UNCHANGED << swarm, pc, fd2conn, poll_args, g_data, wire, backlog, nconnects,
                    naccepted, cid, issued, glog, appended, accepted >>

(***************************************************************************)
(* main(): one iteration of while(true) is Poll, then Accept when the      *)
(* listening socket is readable, then one Dispatch per ready entry.        *)
(***************************************************************************)
\* events poll() may report for the connection on fd
MayReport(fd) ==
    LET c == fd2conn[fd]
    IN  (IF c.want_read /\ (wire[fd] # <<>> \/ peer[fd] # "open") THEN {"IN"} ELSE {})
        \cup (IF c.want_write THEN {"OUT"} ELSE {})
        \cup (IF peer[fd] = "reset" THEN {"ERR"} ELSE {})

\* poll_args[1..] as the loop over fd2conn builds it, with the revents rev;
\* the dispatch loop skips the entries whose revents are 0, and they are left
\* out here
RECURSIVE BuildArgs(_, _)
BuildArgs(fd, rev) ==
    IF fd > Len(fd2conn) THEN <<>>
    ELSE IF fd2conn[fd] = NULL \/ rev[fd] = {} THEN BuildArgs(fd + 1, rev)
    ELSE << [fd |-> fd2conn[fd].fd, revents |-> rev[fd]] >> \o BuildArgs(fd + 1, rev)

Poll ==
    /\ pc = "poll"
    /\ \E lrev \in BOOLEAN :
       \E rev \in [LiveFds -> SUBSET {"IN", "OUT", "ERR"}] :
          /\ lrev => backlog > 0
          /\ \A fd \in LiveFds : rev[fd] \subseteq MayReport(fd)
          /\ lrev \/ \E fd \in LiveFds : rev[fd] # {}
          /\ poll_args' = BuildArgs(1, rev)
          /\ pc' = IF lrev THEN "accept" ELSE "dispatch"
    /\ ev' = Idle
    /\ UNCHANGED << swarm, fd2conn, g_data, wire, peer, backlog, nconnects, naccepted, cid,
                    issued, glog, appended, accepted >>

\* poll() fails with an errno other than EINTR: die("poll()")
PollFail ==
    /\ pc = "poll"
    /\ pc' = "aborted"
    /\ ev' = [op |-> "poll failed"]
    /\ UNCHANGED << swarm, fd2conn, poll_args, g_data, wire, peer, backlog, nconnects,
                    naccepted, cid, issued, glog, appended, accepted >>

\* descriptors the kernel has no socket on: accept() returns the lowest
FreeFds == {fd \in Fds : peer[fd] = "none"}

LowestFree == CHOOSE fd \in FreeFds : \A o \in FreeFds : fd <= o

\* fd2conn.resize(newfd + 1, NULL) when the vector is too short
RECURSIVE Resize(_, _)
Resize(tab, n) == IF Len(tab) >= n THEN tab ELSE Resize(Append(tab, NULL), n)

\* main that registers the conn with fd2conn.push_back(c)
Register_push_back(newfd) ==
    /\ fd2conn' = Append(fd2conn, NewConn(newfd))
    /\ peer' = [peer EXCEPT ![newfd] = "open"]
    /\ wire' = [wire EXCEPT ![newfd] = <<>>]
    /\ cid' = [cid EXCEPT ![newfd] = naccepted + 1]

\* main registers the conn handle_accept made for newfd
Register(newfd) ==
    /\ fd2conn' = [Resize(fd2conn, newfd) EXCEPT ![newfd] = NewConn(newfd)]
    /\ peer' = [peer EXCEPT ![newfd] = "open"]
    /\ wire' = [wire EXCEPT ![newfd] = <<>>]
    /\ cid' = [cid EXCEPT ![newfd] = naccepted + 1]

\* handle_accept returns a conn: main registers it
AcceptOk ==
    /\ pc = "accept"
    /\ backlog > 0
    /\ FreeFds # {}
    /\ Register(LowestFree)
    /\ ev' = [op |-> "accept"]
    /\ naccepted' = naccepted + 1
    /\ backlog' = backlog - 1
    /\ pc' = IF poll_args = <<>> THEN "poll" ELSE "dispatch"
    /\ UNCHANGED << swarm, poll_args, g_data, nconnects, issued, glog, appended, accepted >>

\* accept() returns -1 with EAGAIN: handle_accept returns NULL and main
\* continues with the next iteration
AcceptAgain ==
    /\ pc = "accept"
    /\ backlog = 0
    /\ pc' = "poll"
    /\ poll_args' = <<>>
    /\ ev' = [op |-> "accept again"]
    /\ UNCHANGED << swarm, fd2conn, g_data, wire, peer, backlog, nconnects, naccepted, cid,
                    issued, glog, appended, accepted >>

\* fb_set_nb(fd): fcntl fails on a descriptor that is not open and die() aborts
fb_set_nb(fd) == IF fd < 0 THEN "aborted" ELSE "ok"

\* accept() returns -1 with another errno: handle_accept logs it and goes on
\* to fb_set_nb(newfd)
AcceptFail ==
    /\ pc = "accept"
    /\ backlog > 0
    /\ pc' = IF fb_set_nb(-1) = "aborted" THEN "aborted" ELSE "dispatch"
    /\ ev' = [op |-> "accept failed"]
    /\ UNCHANGED << swarm, fd2conn, poll_args, g_data, wire, peer, backlog, nconnects,
                    naccepted, cid, issued, glog, appended, accepted >>

\* what the kernel may answer to read() on fd; part tells whether transfers
\* of a part of what is available are considered
ReadKinds(fd, part) ==
    IF peer[fd] = "reset" THEN {"error"}
    ELSE IF wire[fd] # <<>>
         THEN {"full"} \cup (IF part /\ Seg < Len(wire[fd]) THEN {"short"} ELSE {})
                       \cup (IF peer[fd] = "open" THEN {"eagain"} ELSE {})
         ELSE IF peer[fd] = "closed" THEN {"eof"} ELSE {"eagain"}

\* what the kernel may answer to write() on fd
WriteKinds(fd, part) ==
    IF peer[fd] = "reset" THEN {"error"}
    ELSE {"eagain", "full"} \cup (IF part THEN {"short"} ELSE {})

\* the ways handle_read sets want_close before it might call handle_write
ReadErrors == {"eof", "read error", "too long", "bad request"}

NoRead(c, g) == read_nothing(c, g, "not called")

RECURSIVE Stamp(_, _)
Stamp(log, c) ==
    IF log = <<>> THEN <<>>
    ELSE << [cid |-> c, cmd |-> Head(log).cmd, g |-> Head(log).g] >> \o Stamp(Tail(log), c)

\* the end of the loop body for the entry of fd: r is what handle_read did, w
\* what the handle_write after it did, n the bytes read() returned, failed
\* whether an assert failed and close whether the connection is closed
DispatchEnd(fd, n, r, w, failed, close) ==
    /\ fd2conn' = [fd2conn EXCEPT ![fd] = IF close THEN NULL ELSE w.c]
    /\ g_data' = r.g
    /\ wire' = [wire EXCEPT ![fd] = IF close THEN <<>> ELSE buf_consume(@, n)]
    /\ peer' = [peer EXCEPT ![fd] = IF close THEN "none" ELSE @]
    /\ glog' = glog \o Stamp(r.log, cid[fd])
    /\ appended' = [appended EXCEPT ![cid[fd]] =
                       @ \o SubSeq(r.queued, Len(fd2conn[fd].write_buf) + 1, Len(r.queued))]
    /\ accepted' = [accepted EXCEPT ![cid[fd]] = @ \o r.acc \o w.acc]
    /\ pc' = IF failed THEN "aborted"
             ELSE IF Tail(poll_args) = <<>> THEN "poll" ELSE "dispatch"
    /\ poll_args' = IF failed THEN poll_args ELSE Tail(poll_args)
    /\ ev' = [op |-> "dispatch",
              err |-> IF r.why \in ReadErrors THEN r.why
                      ELSE IF w.c.want_close THEN "write error" ELSE "none",
              wrote |-> IF r.why \in ReadErrors THEN r.nwrite + w.nwrite ELSE 0,
              ndisp |-> Len(r.log), failed |-> failed, closed |-> close]
    /\ UNCHANGED << swarm, backlog, nconnects, naccepted, cid, issued >>

\* if((ready & POLLERR) || Conn->want_close)
DispatchClose(fd, ready, n, r, w, failed) ==
    DispatchEnd(fd, n, r, w, failed, ~failed /\ ("ERR" \in ready \/ w.c.want_close))

\* if(ready & POLLOUT) { assert(Conn->want_write); handle_write(Conn); }
DispatchWrite(fd, ready, n, r, wk2, failed) ==
    DispatchClose(fd, ready, n, r,
                  IF "OUT" \in ready /\ ~failed THEN handle_write(r.c, wk2) ELSE NoWrite(r.c),
                  failed)

\* the two asserts: want_read when POLLIN is set, want_write when POLLOUT is
DispatchAsserts(fd, ready, n, r, wk2) ==
    DispatchWrite(fd, ready, n, r, wk2,
                  \/ "IN" \in ready /\ ~fd2conn[fd].want_read
                  \/ "OUT" \in ready /\ ~r.c.want_write)

\* if(ready & POLLIN) handle_read(Conn), with read() returning n bytes
DispatchRead(fd, ready, rk, n, wk1, wk2) ==
    DispatchAsserts(fd, ready, n,
                    IF "IN" \in ready
                    THEN handle_read(fd2conn[fd], g_data, rk, SubSeq(wire[fd], 1, n), wk1)
                    ELSE NoRead(fd2conn[fd], g_data),
                    wk2)

\* the body of the loop over poll_args for the next entry whose revents are
\* not 0: handle_read, handle_write and the close, with the kernel answering
\* rk to read(), wk1 to the write() inside handle_read and wk2 to the other
DispatchEntry(rk, wk1, wk2) ==
    DispatchRead(Head(poll_args).fd, Head(poll_args).revents, rk,
                 IF rk \in {"short", "full"}
                 THEN Moved(rk, Len(wire[Head(poll_args).fd])) ELSE 0,
                 wk1, wk2)

\* the loop body with the kernel's answers to write() taken from wks
DispatchKinds(part, wks) ==
    /\ pc = "dispatch"
    /\ LET fd == Head(poll_args).fd
           ready == Head(poll_args).revents
       IN  \E rk \in (IF "IN" \in ready THEN ReadKinds(fd, part) ELSE {"eagain"}) :
           \E wk1 \in (IF "IN" \in ready /\ rk \in {"short", "full"}
                       THEN WriteKinds(fd, part) \cap wks ELSE {"eagain"}) :
           \E wk2 \in (IF "OUT" \in ready THEN WriteKinds(fd, part) \cap wks
                       ELSE {"eagain"}) :
              DispatchEntry(rk, wk1, wk2)

Dispatch(part) == DispatchKinds(part, {"eagain", "error", "short", "full"})

(***************************************************************************)
(* Spec: the server with several connections at a time, each carrying few  *)
(* frames that arrive and leave whole.                                     *)
(***************************************************************************)
Next ==
    \/ ClientConnect(MaxConnects)
    \/ ClientAbort
    \/ \E fd \in Fds, f \in Frames : ClientSend(fd, f, MaxFrames, MaxTotal)
    \/ \E fd \in Fds : ClientClose(fd)
    \/ \E fd \in Fds : ClientReset(fd)
    \/ Poll
    \/ PollFail
    \/ AcceptOk
    \/ AcceptAgain
    \/ AcceptFail
    \/ Dispatch(FALSE)

Spec == Init /\ [][Next]_vars


(***************************************************************************)
(* SpecConn: the server with one connection, which carries any frames of   *)
(* the table and whose reads and writes may move only a part.              *)
(***************************************************************************)
AllFrames == 1..Len(FrameTable)

NextConn ==
    \/ ClientConnect(1)
    \/ ClientAbort
    \/ \E fd \in Fds, f \in AllFrames : ClientSend(fd, f, MaxFrames, MaxFrames)
    \/ \E fd \in Fds : ClientClose(fd)
    \/ \E fd \in Fds : ClientReset(fd)
    \/ Poll
    \/ PollFail
    \/ AcceptOk
    \/ AcceptAgain
    \/ AcceptFail
    \/ Dispatch(TRUE)

SpecConn == Init /\ [][NextConn]_vars


(***************************************************************************)
(* SpecLive: the server with one connection whose client sends well-formed *)
(* requests and keeps the connection open, and with no failing poll() or   *)
(* accept().  The loop keeps running (weak fairness of the accept branch   *)
(* and of the loop body); a socket with unsent bytes is reported writable  *)
(* again and again and a write() on it accepts bytes again and again       *)
(* (strong fairness of PollWritable and of WriteProgress).  The fairness   *)
(* of LoopBody and of WriteProgress is written out, with the condition     *)
(* under which the step can be taken as a state predicate.                 *)
(***************************************************************************)
LiveFrames == {1, 2}

\* poll() reports POLLOUT for some connection
PollWritable ==
    /\ Poll
    /\ \E i \in 1..Len(poll_args') : "OUT" \in poll_args'[i].revents

\* a step of the loop body: no other step is taken at "dispatch", where one
\* is always possible
LoopBody == pc = "dispatch"

\* a step of the loop body for a connection reported writable in which
\* write() accepts bytes (the loop body is the only step taken at "dispatch")
WriteProgress ==
    /\ pc = "dispatch"
    /\ "OUT" \in Head(poll_args).revents
    /\ accepted' # accepted

\* where WriteProgress can be taken: the connection was reported writable,
\* so write_buf is not empty, and its socket was not reset
WriteProgressEnabled ==
    /\ pc = "dispatch"
    /\ "OUT" \in Head(poll_args).revents
    /\ peer[Head(poll_args).fd] # "reset"

NextLive ==
    \/ ClientConnect(1)
    \/ ClientAbort
    \/ \E fd \in Fds, f \in LiveFrames : ClientSend(fd, f, MaxFrames, MaxFrames)
    \/ Poll
    \/ AcceptOk
    \/ AcceptAgain
    \/ Dispatch(TRUE)

SpecLive ==
    /\ Init
    /\ [][NextLive]_vars
    /\ WF_vars(AcceptOk \/ AcceptAgain)
    /\ ([]<>(pc # "dispatch") \/ []<><<LoopBody>>_vars)
    /\ SF_vars(PollWritable)
    /\ (<>[](~WriteProgressEnabled) \/ []<><<WriteProgress>>_vars)


(***************************************************************************)
(* SpecReasm: handle_read and handle_write on one connection whose client  *)
(* sends a fixed byte stream, delivered by read() in chunks of any size    *)
(* down to one byte.  The store may hold a value at the start.  A          *)
(* connection with want_close set gets no further calls, as in main().     *)
(***************************************************************************)
RECURSIVE Flatten(_)
Flatten(fs) == IF fs = <<>> THEN <<>> ELSE FrameTable[Head(fs)].bytes \o Flatten(Tail(fs))

Scripts == UNION {[1..n -> AllFrames] : n \in 0..MaxFrames}

InitReasm ==
    /\ pc = "poll"
    /\ fd2conn = << NewConn(1) >>
    /\ poll_args = <<>>
    /\ g_data \in {EmptyStore, StorePut(EmptyStore, S_k, S_b)}
    /\ \E fs \in Scripts :
          /\ issued = [c \in Cids |-> IF c = 1 THEN fs ELSE <<>>]
          /\ wire = [fd \in Fds |-> IF fd = 1 THEN Flatten(fs) ELSE <<>>]
    /\ peer = [fd \in Fds |-> IF fd = 1 THEN "open" ELSE "none"]
    /\ backlog = 0
    /\ nconnects = 1
    /\ naccepted = 1
    /\ cid = [fd \in Fds |-> IF fd = 1 THEN 1 ELSE 0]
    /\ glog = <<>>
    /\ appended = [c \in Cids |-> <<>>]
    /\ accepted = [c \in Cids |-> <<>>]
    /\ ev = Idle
    /\ swarm = NoSwarm

\* the state after handle_read returned r
Delivered1(r) ==
    /\ fd2conn' = [fd2conn EXCEPT ![1] = r.c]
    /\ g_data' = r.g
    /\ glog' = glog \o Stamp(r.log, 1)
    /\ appended' = [appended EXCEPT ![1] =
                       @ \o SubSeq(r.queued, Len(fd2conn[1].write_buf) + 1, Len(r.queued))]
    /\ accepted' = [accepted EXCEPT ![1] = @ \o r.acc]
    /\ ev' = [op |-> "deliver", joined |-> fd2conn[1].read_buf # <<>>,
              ndisp |-> Len(r.log)]

\* read() returns the next n bytes of the stream to handle_read
Deliver(n, wk) ==
    /\ ~fd2conn[1].want_close
    /\ n \in 1..Len(wire[1])
    /\ Delivered1(handle_read(fd2conn[1], g_data, "full", SubSeq(wire[1], 1, n), wk))
    /\ wire' = [wire EXCEPT ![1] = buf_consume(@, n)]
    /\ UNCHANGED << swarm, pc, poll_args, peer, backlog, nconnects, naccepted, cid, issued >>

\* the state after handle_write returned w
Drained(w) ==
    /\ fd2conn' = [fd2conn EXCEPT ![1] = w.c]
    /\ accepted' = [accepted EXCEPT ![1] = @ \o w.acc]

\* the socket is writable and handle_write runs
Drain(wk) ==
    /\ ~fd2conn[1].want_close
    /\ fd2conn[1].want_write
    /\ Drained(handle_write(fd2conn[1], wk))
    /\ ev' = [op |-> "drain"]
    /\ UNCHANGED << swarm, pc, poll_args, g_data, wire, peer, backlog, nconnects, naccepted,
                    cid, issued, glog, appended >>

NextReasm ==
    \/ \E n \in 1..Len(wire[1]), wk \in {"eagain", "short", "full"} : Deliver(n, wk)
    \/ \E wk \in {"eagain", "short", "full"} : Drain(wk)

SpecReasm == InitReasm /\ [][NextReasm]_vars


(***************************************************************************)
(* SpecDispatch: do_request alone.  The store starts as any store over two *)
(* keys and each step applies do_request to any argument list of up to     *)
(* three words, appending the response to the write_buf of one connection. *)
(* ev keeps the argument list, the store before the call, the bytes the    *)
(* call appended and whether the bytes already in write_buf were kept.     *)
(***************************************************************************)
\* requests dispatched in a row
MaxRequests == 2

Words == {S_get, S_set, S_del, S_k, S_a}

Cmds == UNION {[1..n -> Words] : n \in 0..3}

Stores == UNION {[ks -> {S_a, S_b}] : ks \in SUBSET {S_k, S_a}}

InitDispatch ==
    /\ pc = "dispatch"
    /\ fd2conn = << NewConn(1) >>
    /\ poll_args = <<>>
    /\ g_data \in Stores
    /\ wire = [fd \in Fds |-> <<>>]
    /\ peer = [fd \in Fds |-> IF fd = 1 THEN "open" ELSE "none"]
    /\ backlog = 0
    /\ nconnects = 1
    /\ naccepted = 1
    /\ cid = [fd \in Fds |-> IF fd = 1 THEN 1 ELSE 0]
    /\ issued = [c \in Cids |-> <<>>]
    /\ glog = <<>>
    /\ appended = [c \in Cids |-> <<>>]
    /\ accepted = [c \in Cids |-> <<>>]
    /\ ev = Idle
    /\ swarm = NoSwarm

\* the state after do_request returned d for cmd
Requested(cmd, d) ==
    /\ g_data' = d.g
    /\ fd2conn' = [fd2conn EXCEPT ![1].write_buf = d.out]
    /\ ev' = [op |-> "request", cmd |-> cmd, g |-> g_data,
              resp |-> SubSeq(d.out, Len(fd2conn[1].write_buf) + 1, Len(d.out)),
              kept |-> SubSeq(d.out, 1, Len(fd2conn[1].write_buf)) = fd2conn[1].write_buf]

Request(cmd) ==
    /\ Len(glog) < MaxRequests
    /\ Requested(cmd, do_request(cmd, g_data, fd2conn[1].write_buf))
    /\ glog' = Append(glog, [cid |-> 1, cmd |-> cmd, g |-> g_data])
    /\ UNCHANGED << swarm, pc, poll_args, wire, peer, backlog, nconnects, naccepted, cid,
                    issued, appended, accepted >>

NextDispatch == \E cmd \in Cmds : Request(cmd)

SpecDispatch == InitDispatch /\ [][NextDispatch]_vars


(***************************************************************************)
(* SpecCeiling: the size checks at the ceiling.  A buffer of 32 MiB is not *)
(* written out byte by byte: a request is given by its sizes, which is all *)
(* the ceiling test, the wait for 4 + len bytes and make_response look at. *)
(* The client sends a whole set frame with a key of klen bytes, a value of *)
(* vlen bytes and pad bytes behind the last argument (parse_req does not   *)
(* look at them), and, when it was dispatched, a get of the same key.  ev  *)
(* keeps the length prefix, the value size, whether the frame was          *)
(* dispatched and the size of the whole response frame appended.           *)
(***************************************************************************)
\* length prefixes are drawn from MaxFrameLen - CeilSpan .. MaxFrameLen + CeilSpan
CeilSpan == 12

\* bytes parse_req reads for [set, key, value]: nstr and three strings
set_body_size(klen, vlen) == 4 + (4 + 3) + (4 + klen) + (4 + vlen)

\* bytes parse_req reads for [get, key]
get_body_size(klen) == 4 + (4 + 3) + (4 + klen)

\* bytes make_response appends for a payload of n bytes
response_size(n) == 4 + (4 + n)

InitCeiling ==
    /\ pc = "poll"
    /\ fd2conn = << NewConn(1) >>
    /\ poll_args = <<>>
    /\ g_data = EmptyStore
    /\ wire = [fd \in Fds |-> <<>>]
    /\ peer = [fd \in Fds |-> IF fd = 1 THEN "open" ELSE "none"]
    /\ backlog = 0
    /\ nconnects = 1
    /\ naccepted = 1
    /\ cid = [fd \in Fds |-> IF fd = 1 THEN 1 ELSE 0]
    /\ issued = [c \in Cids |-> <<>>]
    /\ glog = <<>>
    /\ appended = [c \in Cids |-> <<>>]
    /\ accepted = [c \in Cids |-> <<>>]
    /\ ev = Idle
    /\ swarm = NoSwarm

\* handle_one_request on a whole set frame of length prefix len
SizedSet(len, klen, pad) ==
    /\ ev = Idle
    /\ len - set_body_size(klen, 0) - pad >= 0
    /\ ev' = [op |-> "sized set", len |-> len, klen |-> klen,
              vlen |-> len - set_body_size(klen, 0) - pad,
              dispatched |-> ~too_long(len),
              resp |-> IF too_long(len) THEN 0 ELSE response_size(0)]
    /\ UNCHANGED << swarm, pc, fd2conn, poll_args, g_data, wire, peer, backlog, nconnects,
                    naccepted, cid, issued, glog, appended, accepted >>

\* handle_one_request on the get of the key that was set
SizedGet ==
    /\ ev.op = "sized set"
    /\ ev.dispatched
    /\ ev' = [op |-> "sized get", len |-> get_body_size(ev.klen), klen |-> ev.klen,
              vlen |-> ev.vlen,
              dispatched |-> ~too_long(get_body_size(ev.klen)),
              resp |-> IF too_long(get_body_size(ev.klen)) THEN 0
                       ELSE response_size(ev.vlen)]
    /\ UNCHANGED << swarm, pc, fd2conn, poll_args, g_data, wire, peer, backlog, nconnects,
                    naccepted, cid, issued, glog, appended, accepted >>

NextCeiling ==
    \/ \E len \in (MaxFrameLen - CeilSpan)..(MaxFrameLen + CeilSpan),
          klen \in 0..1, pad \in 0..1 : SizedSet(len, klen, pad)
    \/ SizedGet

SpecCeiling == InitCeiling /\ [][NextCeiling]_vars


(***************************************************************************)
(* Reference definitions the properties are stated with.                   *)
(***************************************************************************)
\* the dispatch table: status, payload and store after a command
TableEntry(cmd, g) ==
    CASE Len(cmd) = 2 /\ cmd[1] = S_get /\ cmd[2] \in DOMAIN g ->
            [status |-> 0, payload |-> g[cmd[2]], store |-> g]
      [] Len(cmd) = 2 /\ cmd[1] = S_get /\ cmd[2] \notin DOMAIN g ->
            [status |-> 1, payload |-> <<>>, store |-> g]
      [] Len(cmd) = 3 /\ cmd[1] = S_set ->
            [status |-> 0, payload |-> <<>>,
             store |-> [x \in DOMAIN g \cup {cmd[2]} |-> IF x = cmd[2] THEN cmd[3] ELSE g[x]]]
      [] Len(cmd) = 2 /\ cmd[1] = S_del ->
            [status |-> 0, payload |-> <<>>, store |-> [x \in DOMAIN g \ {cmd[2]} |-> g[x]]]
      [] OTHER ->
            [status |-> 1, payload |-> <<>>, store |-> g]

\* a response frame: total length, status, payload
RespFrame(status, payload) == U32(4 + Len(payload)) \o U32(status) \o payload

\* the requests dispatched for connection k, in dispatch order
LogOf(k) == SelectSeq(glog, LAMBDA e : e.cid = k)

\* the response frames the table gives for a log of dispatched requests
RECURSIVE Responses(_)
Responses(log) ==
    IF log = <<>> THEN <<>>
    ELSE LET t == TableEntry(Head(log).cmd, Head(log).g)
         IN  RespFrame(t.status, t.payload) \o Responses(Tail(log))

\* C1: on every connection the dispatched requests are, in order, the first
\* frames its client sent, all of them well-formed, and the bytes appended to
\* write_buf are exactly one response frame per dispatched request, in the
\* same order, each the table's answer on the store the request ran on.
C1_ResponsesFollowRequests ==
    \A k \in Cids :
       LET log == LogOf(k)
       IN  /\ Len(log) <= Len(issued[k])
           /\ \A i \in 1..Len(log) :
                 /\ FrameTable[issued[k][i]].kind = "ok"
                 /\ log[i].cmd = FrameTable[issued[k][i]].cmd
           /\ appended[k] = Responses(log)

\* two pipelined requests were dispatched by one handle_read and both
\* responses were queued
C1_Witness ==
    /\ ev.op = "dispatch"
    /\ ev.ndisp = 2
    /\ \E k \in Cids : Len(LogOf(k)) = 2 /\ Len(appended[k]) >= 16


\* the bytes connection k's client has sent in all
Stream(k) == Flatten(issued[k])

\* the bytes of the stream that read() has returned so far (SpecReasm)
Delivered == SubSeq(Stream(1), 1, Len(Stream(1)) - Len(wire[1]))

\* the store the connection started on (SpecReasm)
StartStore == IF glog = <<>> THEN g_data ELSE glog[1].g

\* handle_read on a fresh connection to which one read() returns all the
\* bytes delivered so far
OneRead == handle_read(NewConn(1), StartStore, "full", Delivered, "eagain")

\* C2: however read() cut the bytes delivered so far into chunks, the store,
\* the response bytes appended to write_buf, want_close and the unparsed rest
\* in read_buf are what one read() returning all those bytes gives.
C2_Reassembly ==
    Delivered # <<>> =>
       /\ g_data = OneRead.g
       /\ appended[1] = OneRead.queued
       /\ fd2conn[1].want_close = OneRead.c.want_close
       /\ fd2conn[1].read_buf = OneRead.c.read_buf

\* a read() that continued a partial frame completed the second of two
\* requests, and the whole stream has been delivered
C2_Witness ==
    /\ ev.op = "deliver"
    /\ ev.joined
    /\ ev.ndisp = 1
    /\ Len(glog) = 2
    /\ wire[1] = <<>>

\* read_buf holds less than a whole frame: no length prefix yet, or a length
\* within the ceiling and fewer than 4 + length bytes
Partial(buf) ==
    \/ Len(buf) < 4
    \/ LoadU32(buf, 0) <= MaxFrameLen /\ Len(buf) < 4 + LoadU32(buf, 0)

\* C3: a step that leaves handle_one_request with less than a whole frame in
\* read_buf dispatches nothing: the store and the log of dispatched requests
\* are unchanged, nothing is appended to write_buf, the bytes read are kept
\* in read_buf behind the ones already there, and want_close is unchanged.
C3_NoPartialFrame ==
    [][ LET n == Len(wire[1]) - Len(wire'[1])
            buf == fd2conn[1].read_buf \o SubSeq(wire[1], 1, n)
        IN  Partial(buf) =>
               /\ g_data' = g_data
               /\ glog' = glog
               /\ appended' = appended
               /\ fd2conn'[1].read_buf = buf
               /\ fd2conn'[1].want_close = fd2conn[1].want_close ]_vars

\* a read() left a length prefix and a part of the frame's body in read_buf
\* and nothing has been dispatched
C3_Witness ==
    /\ ev.op = "deliver"
    /\ Len(fd2conn[1].read_buf) > 4
    /\ Partial(fd2conn[1].read_buf)
    /\ ~fd2conn[1].want_close
    /\ glog = <<>>
    /\ appended[1] = <<>>


\* the fd and the revents of the entry a Dispatch step is about to handle
CurFd == Head(poll_args).fd

CurReady == Head(poll_args).revents

\* C4 (as claimed): a dispatch that finds a length prefix above the ceiling
\* closes the connection in that round, leaves the process running and, when
\* it dispatched nothing before the prefix, leaves the store as it was.
C4_OversizeRejected ==
    [][ (pc = "dispatch" /\ ev'.op = "dispatch" /\ ev'.err = "too long") =>
           /\ pc' # "aborted"
           /\ ev'.closed
           /\ Slot(fd2conn', CurFd) = NULL
           /\ (ev'.ndisp = 0 => g_data' = g_data) ]_vars


\* the body of frame f (the bytes after the length prefix) has an argument
\* count or an argument length that runs past the body's end
RECURSIVE ArgsRunPast(_, _, _)
ArgsRunPast(body, cur, left) ==
    IF left = 0 THEN FALSE
    ELSE IF Len(body) - cur < 4 THEN TRUE
    ELSE IF Len(body) - (cur + 4) < LoadU32(body, cur) THEN TRUE
    ELSE ArgsRunPast(body, cur + 4 + LoadU32(body, cur), left - 1)

RunsPast(body) == Len(body) < 4 \/ ArgsRunPast(body, 4, LoadU32(body, 0))

\* frame f is complete, within the ceiling, and runs past its declared end
Malformed(f) ==
    LET b == FrameTable[f].bytes
    IN  /\ Len(b) >= 4
        /\ LoadU32(b, 0) <= MaxFrameLen
        /\ Len(b) = 4 + LoadU32(b, 0)
        /\ RunsPast(buf_consume(b, 4))

\* the store after the last dispatched request, by the table
StoreAfter(g0, log) ==
    IF log = <<>> THEN g0
    ELSE TableEntry(log[Len(log)].cmd, log[Len(log)].g).store

\* C5: parse_req fails on every frame that runs past its declared end; such
\* a frame and the frames its client sent after it are never dispatched; the
\* store is what the dispatched requests made it; and the dispatch that met
\* the frame leaves want_close set, the connection being closed in that
\* iteration unless the process stopped in it.
C5_MalformedRejected ==
    /\ \A k \in Cids : \A i \in 1..Len(issued[k]) :
          Malformed(issued[k][i]) =>
             /\ parse_req(buf_consume(FrameTable[issued[k][i]].bytes, 4)).rc < 0
             /\ Len(LogOf(k)) < i
    /\ g_data = StoreAfter(EmptyStore, glog)
    /\ (ev.op = "dispatch" /\ ev.err = "bad request") =>
          \/ ev.closed
          \/ pc = "aborted" /\ fd2conn[CurFd].want_close

\* a read() returned a well-formed request followed by a malformed frame: the
\* request was dispatched, the frame was not, and the connection was closed
C5_Witness ==
    /\ ev.op = "dispatch"
    /\ ev.err = "bad request"
    /\ ev.ndisp = 1
    /\ ev.closed
    /\ \E k \in Cids :
          /\ Len(issued[k]) = 2
          /\ Malformed(issued[k][2])
          /\ Len(LogOf(k)) = 1


\* C6 (as claimed): a dispatch in which the connection fails (end of stream,
\* read or write error, oversized or malformed frame) closes that connection,
\* leaves the process running and leaves every other slot of fd2conn as it
\* was.
C6_ErrorContained ==
    [][ (pc = "dispatch" /\ ev'.op = "dispatch" /\ ev'.err # "none") =>
           /\ pc' # "aborted"
           /\ ev'.closed
           /\ \A fd \in Fds \ {CurFd} : Slot(fd2conn', fd) = Slot(fd2conn, fd) ]_vars


\* C7 (as claimed): after accept() failed with an errno other than EAGAIN the
\* process is running.
C7_AcceptFailureNotFatal == ev.op = "accept failed" => pc # "aborted"


\* C8: the response do_request appends and the store it leaves are the
\* table's for the argument list and the store it was called on, and the
\* bytes already in write_buf stay in front.
C8_DispatchTable ==
    ev.op = "request" =>
       /\ g_data = TableEntry(ev.cmd, ev.g).store
       /\ ev.resp = RespFrame(TableEntry(ev.cmd, ev.g).status,
                              TableEntry(ev.cmd, ev.g).payload)
       /\ ev.kept

\* del of the same key was dispatched twice in a row and answered status 0
\* the second time, when the key was not there
C8_Witness ==
    /\ ev.op = "request"
    /\ Len(glog) = 2
    /\ glog[1].cmd = << S_del, S_k >>
    /\ glog[2].cmd = << S_del, S_k >>
    /\ S_k \in DOMAIN glog[1].g
    /\ S_k \notin DOMAIN ev.g
    /\ ev.resp = RespFrame(0, <<>>)


\* the i-th frame of a buffer of length-prefixed frames
RECURSIVE NthFrame(_, _)
NthFrame(buf, i) ==
    IF i = 1 THEN SubSeq(buf, 1, 4 + LoadU32(buf, 0))
    ELSE NthFrame(buf_consume(buf, 4 + LoadU32(buf, 0)), i - 1)

\* the number of requests of connection k among the first q dispatched
CountOf(k, q) == Len(SelectSeq(SubSeq(glog, 1, q), LAMBDA e : e.cid = k))

\* glog[p] is a set and glog[q] the next request of the same connection, a
\* get of the same key
SetThenGet(p, q) ==
    /\ p < q
    /\ glog[p].cid = glog[q].cid
    /\ \A m \in (p + 1)..(q - 1) : glog[m].cid # glog[p].cid
    /\ Len(glog[p].cmd) = 3 /\ glog[p].cmd[1] = S_set
    /\ glog[q].cmd = << S_get, glog[p].cmd[2] >>

\* glog[m] is a set or a del of key
Disturbs(m, key) ==
    \/ Len(glog[m].cmd) = 3 /\ glog[m].cmd[1] = S_set /\ glog[m].cmd[2] = key
    \/ glog[m].cmd = << S_del, key >>

\* the response to glog[q] is status 0 with the value glog[p] set
AnsweredWith(p, q) ==
    NthFrame(appended[glog[q].cid], CountOf(glog[q].cid, q)) = RespFrame(0, glog[p].cmd[3])

\* C9 (as claimed): the response to a get that follows a set of the same key
\* on the same connection is status 0 with the value set, whatever the other
\* connections had dispatched in between.
C9_RoundTrip ==
    \A p \in 1..Len(glog), q \in 1..Len(glog) : SetThenGet(p, q) => AnsweredWith(p, q)

\* C9 (amended): the same, when no set or del of the key by another
\* connection was dispatched between the set and the get.
C9_RoundTripUndisturbed ==
    \A p \in 1..Len(glog), q \in 1..Len(glog) :
       (SetThenGet(p, q) /\ \A m \in (p + 1)..(q - 1) : ~Disturbs(m, glog[p].cmd[2]))
          => AnsweredWith(p, q)

\* a set and the get after it were dispatched by different reads, with a
\* request of another connection dispatched between them, and the get was
\* answered with the value
C9_Witness ==
    /\ Len(glog) = 3
    /\ SetThenGet(1, 3)
    /\ ~Disturbs(2, glog[1].cmd[2])
    /\ AnsweredWith(1, 3)


Violations == {"too long", "bad request"}

\* C10 (as claimed): a dispatch that meets an oversized or malformed frame
\* issues no write() on the connection after want_close is set.
C10_NoWriteAfterViolation ==
    (ev.op = "dispatch" /\ ev.err \in Violations) => ev.wrote = 0

\* C10 (amended): after handle_one_request set want_close for an oversized or
\* malformed frame, handle_read issues one write() when write_buf is not
\* empty and none when it is; the loop issues one more when POLLOUT was
\* reported and its assert held; and then the connection is closed with
\* whatever is left in write_buf, or the process has stopped.
C10_WritesAfterViolation ==
    [][ (pc = "dispatch" /\ ev'.op = "dispatch" /\ ev'.err \in Violations) =>
           /\ ev'.wrote =
                 (IF fd2conn[CurFd].write_buf # <<>> \/ ev'.ndisp > 0 THEN 1 ELSE 0)
                 + (IF "OUT" \in CurReady /\ ~ev'.failed THEN 1 ELSE 0)
           /\ \/ ev'.closed /\ Slot(fd2conn', CurFd) = NULL
              \/ pc' = "aborted" ]_vars

\* a read() returned a request and an oversized prefix: the response was
\* queued, one write() was issued after want_close was set, and the
\* connection was closed
C10_Witness ==
    /\ ev.op = "dispatch"
    /\ ev.err = "too long"
    /\ ev.ndisp = 1
    /\ ev.wrote = 1
    /\ ev.closed


\* C11 (as claimed): a dispatched request frame takes at most 32 MiB with
\* its length prefix, and so does every response frame appended.
C11_FrameCeiling ==
    (ev.op \in {"sized set", "sized get"} /\ ev.dispatched) =>
       /\ 4 + ev.len <= k_max_msg
       /\ ev.resp <= k_max_msg

\* C11 (amended): a request frame is dispatched only when its length prefix
\* is at most 32 MiB, a frame with a larger prefix is not dispatched, and
\* every response frame appended takes at most 32 MiB with its prefix.
C11_LengthCeiling ==
    ev.op \in {"sized set", "sized get"} =>
       /\ ev.dispatched => ev.len <= k_max_msg
       /\ ev.len > k_max_msg => ~ev.dispatched /\ ev.resp = 0
       /\ ev.resp <= k_max_msg

\* a set frame with a length prefix of exactly 32 MiB was dispatched and the
\* get after it was answered with the value, the largest a frame can carry
C11_Witness ==
    /\ ev.op = "sized get"
    /\ ev.dispatched
    /\ ev.vlen = k_max_msg - set_body_size(0, 0)
    /\ ev.resp = response_size(ev.vlen)


\* C12 (as claimed): no assert of the dispatch loop fails.
C12_AssertsHold == ev.op = "dispatch" => ~ev.failed


\* C13 (as claimed): when the accept branch of an iteration has registered a
\* connection and goes on, no connection is left pending.  (Clients connect
\* only while the server is in poll(), so what is pending after the branch
\* was pending when poll() returned.)
C13_AcceptDrains ==
    [][ (pc = "accept" /\ ev'.op = "accept") => backlog' = 0 ]_vars


\* some entry of poll_args reports POLLERR
RECURSIVE AnyErr(_)
AnyErr(args) ==
    IF args = <<>> THEN FALSE ELSE "ERR" \in Head(args).revents \/ AnyErr(Tail(args))

\* C14 (as claimed): a live connection never has want_close reset; the loop
\* body leaves the connection of its entry closed and out of fd2conn unless
\* want_close is false and no error was reported for it; and an iteration
\* does not end without visiting an entry that reports an error.
C14_ClosedInRound ==
    [][ /\ \A fd \in Fds :
              (Live(fd) /\ fd2conn[fd].want_close) =>
                 (Slot(fd2conn', fd) = NULL \/ Slot(fd2conn', fd).want_close)
        /\ (pc = "dispatch" /\ ev'.op = "dispatch") =>
              \/ Slot(fd2conn', CurFd) = NULL
              \/ ~Slot(fd2conn', CurFd).want_close /\ "ERR" \notin CurReady
        /\ (pc = "accept" /\ pc' = "poll") => ~AnyErr(poll_args) ]_vars


\* C15: for every live connection the bytes write() has accepted followed by
\* write_buf are the bytes appended to write_buf so far, and these are the
\* response frames of the requests dispatched for it, in order.
C15_WriteFifo ==
    \A fd \in Fds :
       Live(fd) =>
          /\ accepted[cid[fd]] \o fd2conn[fd].write_buf = appended[cid[fd]]
          /\ appended[cid[fd]] = Responses(LogOf(cid[fd]))

\* a write() accepted a part of a response and the rest is still in write_buf
C15_Witness ==
    /\ ev.op = "dispatch"
    /\ Live(1)
    /\ Len(accepted[cid[1]]) = Seg
    /\ fd2conn[1].write_buf # <<>>
    /\ fd2conn[1].want_write


\* C19: when an iteration starts, every live connection has want_read set
\* and has want_write set exactly when write_buf is not empty.
C19_WriteInterest ==
    pc = "poll" =>
       \A fd \in Fds :
          Live(fd) =>
             /\ fd2conn[fd].want_read
             /\ fd2conn[fd].want_write <=> (fd2conn[fd].write_buf # <<>>)

\* an iteration starts with unsent bytes and want_write set after a write()
\* that did not take everything
C19_Witness ==
    /\ pc = "poll"
    /\ ev.op = "dispatch"
    /\ Live(1)
    /\ fd2conn[1].want_write
    /\ fd2conn[1].write_buf # <<>>


\* every entry the dispatch loop has still to visit names a live connection
RECURSIVE AllLive(_)
AllLive(args) ==
    IF args = <<>> THEN TRUE ELSE Live(Head(args).fd) /\ AllLive(Tail(args))

\* each slot in use holds the conn of its own descriptor, and the slots in
\* use are those of the descriptors with a socket
TableSound ==
    /\ \A fd \in 1..Len(fd2conn) : fd2conn[fd] # NULL => fd \in Fds /\ fd2conn[fd].fd = fd
    /\ \A fd \in Fds : Live(fd) <=> peer[fd] # "none"
    /\ pc = "dispatch" => poll_args # <<>> /\ AllLive(poll_args)

\* C20: after every step the table is sound, so the loop body finds a conn
\* in the slot of its entry; an accept fills a slot that was NULL and leaves
\* the other slots as they were; and a slot becomes NULL only in the loop
\* body of its own entry, together with the close of its socket.
C20_TableSound ==
    [][ /\ TableSound'
        /\ (pc = "accept" /\ ev'.op = "accept") =>
              \A fd \in Fds : Live(fd) => Slot(fd2conn', fd) = fd2conn[fd]
        /\ \A fd \in Fds :
              (Live(fd) /\ Slot(fd2conn', fd) = NULL) =>
                 /\ pc = "dispatch" /\ CurFd = fd
                 /\ peer'[fd] = "none" ]_vars

\* the descriptor of a closed connection carries a later connection
C20_Witness ==
    /\ naccepted = 2
    /\ Live(1)
    /\ cid[1] = 2
    /\ fd2conn[1].fd = 1


MaxReqs == 34
SmallReqs == 2
WSeg == 16
RSeg == 4

max_pipeline == 32

S_key == <<107, 101, 121>>
S_value == <<118, 97, 108, 117, 101>>

fill_request ==
    U32(27) \o U32(3) \o U32(3) \o S_set \o U32(3) \o S_key \o U32(5) \o S_value

request_data == fill_request

\* what the server appends to write_buf for the request: status 0, no data
reply_data == make_response(Response, <<>>)

\* n bytes of the response stream from offset off on
reply_bytes(off, n) ==
    [j \in 1..n |-> reply_data[((off + j - 1) % Len(reply_data)) + 1]]

NewClient ==
    [state |-> "CONNECTING", sent_count |-> 0, recv_count |-> 0,
     wbuf_sent |-> 0, rbuf |-> <<>>,
     link |-> "pending", partial |-> <<>>, whole |-> 0, answered |-> 0,
     fin |-> 0]

\* close(c->fd); c->state = STATE_DONE; completed++;
client_done(c) == [c EXCEPT !.state = "DONE", !.fin = @ + 1]

RECURSIVE response_loop(_, _)

response_counted(c, reqs_per_client) ==
    IF c.recv_count >= reqs_per_client THEN client_done(c)
    ELSE response_loop(c, reqs_per_client)

response_taken(c, reqs_per_client, len) ==
    IF Len(c.rbuf) < 4 + len THEN c
    ELSE response_counted([c EXCEPT !.rbuf = buf_consume(@, 4 + len),
                                    !.recv_count = @ + 1],
                          reqs_per_client)

\* while (c->rbuf.size() >= 4)
response_loop(c, reqs_per_client) ==
    IF Len(c.rbuf) >= 4 THEN response_taken(c, reqs_per_client, LoadU32(c.rbuf, 0))
    ELSE c

\* bytes the server produced that read() has not returned yet
Unread(c) ==
    Len(reply_data) * c.answered - (Len(reply_data) * c.recv_count + Len(c.rbuf))

\* the POLLIN branch: read() returned n, with errno EAGAIN when again
client_read(c, reqs_per_client, n, again) ==
    IF n > 0 THEN
        response_loop(
            [c EXCEPT !.rbuf = @ \o reply_bytes(Len(reply_data) * c.answered
                                                    - Unread(c), n)],
            reqs_per_client)
    ELSE IF n = 0 \/ (n < 0 /\ ~again) THEN client_done(c)
    ELSE c

\* the test of the while loop of the POLLOUT branch
may_send_unbounded(c, reqs_per_client) == c.sent_count < reqs_per_client

may_send(c, reqs_per_client) ==
    /\ c.sent_count < reqs_per_client
    /\ (c.sent_count - c.recv_count) < max_pipeline

\* what the socket holds once write() accepted the bytes chunk
sock_written(c, stream) ==
    IF Len(stream) >= Len(request_data)
    THEN [c EXCEPT !.partial = buf_consume(stream, Len(request_data)),
                   !.whole = IF SubSeq(stream, 1, Len(request_data)) = request_data
                             THEN @ + 1 ELSE @]
    ELSE [c EXCEPT !.partial = stream]

\* c->wbuf_sent += n; if (c->wbuf_sent == c->wbuf.size()) {...}
write_counted(c, sent) ==
    IF sent = Len(request_data)
    THEN [c EXCEPT !.sent_count = @ + 1, !.wbuf_sent = 0]
    ELSE [c EXCEPT !.wbuf_sent = sent]

RECURSIVE write_loop(_, _, _, _)

write_some(c, reqs_per_client, budget, fatal, n) ==
    write_loop(
        write_counted(
            sock_written(c, c.partial \o SubSeq(request_data, c.wbuf_sent + 1,
                                               c.wbuf_sent + n)),
            c.wbuf_sent + n),
        reqs_per_client, budget - n, fatal)

\* the while loop of the POLLOUT branch; the kernel accepts budget bytes and
\* then write() fails, with EAGAIN or, when fatal, with another error
write_loop(c, reqs_per_client, budget, fatal) ==
    IF ~may_send(c, reqs_per_client) THEN c
    ELSE IF budget = 0 THEN (IF fatal THEN client_done(c) ELSE c)
    ELSE write_some(c, reqs_per_client, budget, fatal,
                    Min(budget, Len(request_data) - c.wbuf_sent))

client_pollout(c, reqs_per_client, revents, budget, fatal) ==
    IF c.state = "CONNECTED" /\ "OUT" \in revents
    THEN write_loop(c, reqs_per_client, budget, fatal)
    ELSE c

client_pollin(c, reqs_per_client, revents, n, again) ==
    IF "IN" \in revents THEN client_read(c, reqs_per_client, n, again) ELSE c

\* getsockopt(SO_ERROR) of a connecting socket
client_connecting(c, revents) ==
    IF revents \cap {"OUT", "ERR"} # {} THEN
        IF c.link = "ok" THEN [c EXCEPT !.state = "CONNECTED"]
        ELSE client_done(c)
    ELSE c

\* the body of the loop over poll_args for one client
client_events(c, reqs_per_client, revents, n, again, budget, fatal) ==
    IF c.state = "CONNECTING" THEN client_connecting(c, revents)
    ELSE client_pollout(client_pollin(c, reqs_per_client, revents, n, again),
                        reqs_per_client, revents, budget, fatal)

\* the events the client asks poll() for
client_interest(c, reqs_per_client) ==
    (IF c.state = "CONNECTING" THEN {"OUT"} ELSE {"IN"})
      \cup (IF c.state = "CONNECTED" /\ c.sent_count < reqs_per_client
            THEN {"OUT"} ELSE {})

\* the events poll() may report for the client's socket
client_ready(c, reqs_per_client) ==
    IF c.state = "CONNECTING" THEN
        IF c.link = "ok" THEN {"OUT"}
        ELSE IF c.link = "failed" THEN {"OUT", "ERR"}
        ELSE {}
    ELSE (client_interest(c, reqs_per_client)
            \cap ({"OUT"} \cup (IF Unread(c) > 0 \/ c.link = "closed"
                                THEN {"IN"} ELSE {})))
           \cup (IF c.link = "closed" THEN {"ERR"} ELSE {})

\* what read() may return: <<n, errno is EAGAIN>>
ReadResults(c) ==
    IF Unread(c) > 0 THEN {<<Min(RSeg, Unread(c)), FALSE>>, <<Unread(c), FALSE>>}
    ELSE IF c.link = "closed" THEN {<<0, FALSE>>, <<-1, FALSE>>}
    ELSE {<<-1, TRUE>>}

\* what write() may accept before it fails: <<bytes, the failure is fatal>>
WriteResults(c, reqs_per_client) ==
    ({0, Min(WSeg, Len(request_data) - c.wbuf_sent),
      Len(request_data) - c.wbuf_sent,
      Len(request_data) - c.wbuf_sent + WSeg,
      Len(request_data) * reqs_per_client} \X {FALSE})
      \cup (IF c.link = "closed" THEN {<<0, TRUE>>} ELSE {})

\* k_num_clients and k_total_requests of the runs considered
Runs == {<<1, 0>>, <<1, MaxReqs>>, <<2, 1>>, <<2, 2 * SmallReqs>>}

ServerIdle ==
    /\ pc = "poll"
    /\ fd2conn = <<>>
    /\ poll_args = <<>>
    /\ g_data = EmptyStore
    /\ wire = [fd \in Fds |-> <<>>]
    /\ peer = [fd \in Fds |-> "none"]
    /\ backlog = 0
    /\ nconnects = 0
    /\ naccepted = 0
    /\ cid = [fd \in Fds |-> 0]
    /\ issued = [c \in Cids |-> <<>>]
    /\ glog = <<>>
    /\ appended = [c \in Cids |-> <<>>]
    /\ accepted = [c \in Cids |-> <<>>]
    /\ ev = Idle

SwarmStart(k_num_clients, k_total_requests) ==
    [pc |-> "run",
     reqs_per_client |-> k_total_requests \div k_num_clients,
     completed |-> 0,
     clients |-> [i \in 1..k_num_clients |-> NewClient]]

InitSwarm ==
    /\ ServerIdle
    /\ \E run \in Runs : swarm = SwarmStart(run[1], run[2])

k_num_clients == Len(swarm.clients)

\* the connection attempt of client i resolves
ConnectResolves(i, res) ==
    /\ swarm.pc = "run"
    /\ swarm.clients[i].state = "CONNECTING"
    /\ swarm.clients[i].link = "pending"
    /\ swarm' = [swarm EXCEPT !.clients[i].link = res]
    /\ UNCHANGED server_vars

\* the server answers a request of client i that it has received whole
ServerAnswers(i) ==
    /\ swarm.pc = "run"
    /\ swarm.clients[i].state = "CONNECTED"
    /\ swarm.clients[i].link = "ok"
    /\ swarm.clients[i].answered < swarm.clients[i].whole
    /\ swarm' = [swarm EXCEPT !.clients[i].answered = @ + 1]
    /\ UNCHANGED server_vars

\* the server closes the connection of client i
ServerCloses(i) ==
    /\ swarm.pc = "run"
    /\ swarm.clients[i].state = "CONNECTED"
    /\ swarm.clients[i].link = "ok"
    /\ swarm' = [swarm EXCEPT !.clients[i].link = "closed"]
    /\ UNCHANGED server_vars

Handled(i, c) ==
    swarm' = [swarm EXCEPT !.clients[i] = c,
                           !.completed = @ + (c.fin - swarm.clients[i].fin)]

\* one iteration of the loop reports events for client i and handles them
SwarmHandle(i) ==
    /\ swarm.pc = "run"
    /\ swarm.completed < k_num_clients
    /\ swarm.clients[i].state # "DONE"
    /\ \E revents \in SUBSET client_ready(swarm.clients[i], swarm.reqs_per_client) :
         /\ revents # {}
         /\ \E r \in ReadResults(swarm.clients[i]) :
              \E w \in WriteResults(swarm.clients[i], swarm.reqs_per_client) :
                 Handled(i, client_events(swarm.clients[i], swarm.reqs_per_client,
                                          revents, r[1], r[2], w[1], w[2]))
    /\ UNCHANGED server_vars

\* while (completed < k_num_clients) ends and the result is printed
SwarmExit ==
    /\ swarm.pc = "run"
    /\ ~(swarm.completed < k_num_clients)
    /\ swarm' = [swarm EXCEPT !.pc = "done"]
    /\ UNCHANGED server_vars

NextSwarm ==
    \/ \E i \in 1..k_num_clients : \E res \in {"ok", "failed"} : ConnectResolves(i, res)
    \/ \E i \in 1..k_num_clients : ServerAnswers(i)
    \/ \E i \in 1..k_num_clients : ServerCloses(i)
    \/ \E i \in 1..k_num_clients : SwarmHandle(i)
    \/ SwarmExit

SpecSwarm == InitSwarm /\ [][NextSwarm]_vars


\* C17: for every client in every reachable state of the benchmark client,
\* 0 <= sent_count - recv_count <= 32 and sent_count <= reqs_per_client; a
\* request is started only while fewer than 32 are in flight (a request
\* under way, wbuf_sent > 0, is one more than the sent_count in flight and
\* still within the bound), and a partially written request is completed
\* before the next one is started: the socket holds whole copies of the
\* request followed by the first wbuf_sent bytes of one.
C17_PipelineBound ==
    \A i \in 1..Len(swarm.clients) :
        LET c == swarm.clients[i]
        IN  /\ 0 <= c.sent_count - c.recv_count
            /\ c.sent_count - c.recv_count <= max_pipeline
            /\ c.sent_count <= swarm.reqs_per_client
            /\ c.wbuf_sent >= 0 /\ c.wbuf_sent < Len(request_data)
            /\ (c.wbuf_sent > 0 =>
                  /\ c.sent_count - c.recv_count < max_pipeline
                  /\ c.sent_count < swarm.reqs_per_client)
            /\ c.whole = c.sent_count
            /\ c.partial = SubSeq(request_data, 1, c.wbuf_sent)

\* a client with 32 requests in flight and more to send, after a request was
\* written in two parts
C17_Witness ==
    /\ swarm.pc = "run"
    /\ Len(swarm.clients) = 1
    /\ swarm.clients[1].state = "CONNECTED"
    /\ swarm.clients[1].sent_count - swarm.clients[1].recv_count = max_pipeline
    /\ swarm.clients[1].sent_count < swarm.reqs_per_client
    /\ swarm.clients[1].recv_count > 0


(***************************************************************************)
(* The benchmark client against a server that stays up: every connection   *)
(* attempt resolves, the server answers every request it has received,     *)
(* poll() returns when an event is ready and the loop handles it.          *)
(***************************************************************************)
MaxClients == 2

LiveRuns == {<<1, 0>>, <<1, SmallReqs + 1>>, <<2, 1>>, <<2, 2 * SmallReqs>>}

InitSwarmLive ==
    /\ ServerIdle
    /\ \E run \in LiveRuns : swarm = SwarmStart(run[1], run[2])

NextSwarmLive ==
    \/ \E i \in 1..k_num_clients : \E res \in {"ok", "failed"} : ConnectResolves(i, res)
    \/ \E i \in 1..k_num_clients : ServerAnswers(i)
    \/ \E i \in 1..k_num_clients : SwarmHandle(i)
    \/ SwarmExit

SpecSwarmLive ==
    /\ InitSwarmLive
    /\ [][NextSwarmLive]_vars
    /\ \A i \in 1..MaxClients :
         /\ WF_vars(i <= k_num_clients
                      /\ \E res \in {"ok", "failed"} : ConnectResolves(i, res))
         /\ WF_vars(i <= k_num_clients /\ ServerAnswers(i))
         /\ WF_vars(i <= k_num_clients /\ SwarmHandle(i))
    /\ WF_vars(SwarmExit)

\* C18: for any number of clients N >= 1 and any total T >= 0, when every
\* connection attempt resolves and the server answers every request sent,
\* every client eventually reaches STATE_DONE having incremented completed
\* once, and the main loop exits with completed = N.
C18_Terminates ==
    <>( /\ swarm.pc = "done"
        /\ swarm.completed = k_num_clients
        /\ \A i \in 1..k_num_clients :
              swarm.clients[i].state = "DONE" /\ swarm.clients[i].fin = 1 )

====
